---- MODULE Spec2Model ----
(***************************************************************************)
(* Model of crates/engine/src/snapshot/pretty_print.rs: the statistics     *)
(* pass get_snapshot_stats and the report print_summary of a snapshot      *)
(* collection Snapshots<DB>.  The collection is read-only for both         *)
(* operations; a behaviour is one collection and one call on it.           *)
(***************************************************************************)
EXTENDS Integers, Sequences, FiniteSets, TLC

VARIABLES inner, frame_count, returned, stats, frame_order, frame_groups, out, log

vars == <<inner, frame_count, returned, stats, frame_order, frame_groups, out, log>>

(***************************************************************************)
(* Bounds of the explored inputs.                                          *)
(***************************************************************************)
\* longest collection of the general (multi-frame) input family
MaxLen == 4
\* longest collection of the address input family
MaxGroup == 3
\* longest collection of the opcode input family
MaxOps == 4
\* longest collection of the hook input family
MaxHooks == 12
\* most frames frame_count() reports beyond those that carry a snapshot
MaxExtra == 1

(***************************************************************************)
(* Data: ExecutionFrameId, SnapshotDetail, Snapshot.                       *)
(***************************************************************************)
ExecutionFrameId(t, r) == [trace_entry_id |-> t, re_entry_count |-> r]

HookDetail(u) == [kind |-> "Hook", usid |-> u]

OpcodeDetail(p, s) == [kind |-> "Opcode", pc |-> p, stack |-> s]

Snapshot(d, a) == [detail |-> d, bytecode_address |-> a]

is_hook(s) == s.detail.kind = "Hook"

is_opcode(s) == s.detail.kind = "Opcode"

\* a stack of d words
StackOf(d) == [i \in 1..d |-> 0]

(***************************************************************************)
(* Input families.  A collection is a sequence of <<frame_id, snapshot>>.  *)
(***************************************************************************)
FrameIds == {ExecutionFrameId(0, 0), ExecutionFrameId(1, 0), ExecutionFrameId(1, 1)}

Frame0 == ExecutionFrameId(0, 0)

Addresses == {1, 2, 3}

OpcodeInputs == {OpcodeDetail(5, StackOf(1)), OpcodeDetail(20, StackOf(3)),
                 OpcodeDetail(9, StackOf(5)), OpcodeDetail(9, StackOf(0))}

GeneralDetails == {HookDetail(1), OpcodeDetail(5, StackOf(1))}

SeqsUpTo(S, n) == UNION {[1..k -> S] : k \in 0..n}

\* several frames, both kinds, one address
GeneralColls ==
    SeqsUpTo(FrameIds \X {Snapshot(d, 1) : d \in GeneralDetails}, MaxLen)

\* one frame, both kinds, several addresses
AddressColls ==
    SeqsUpTo({Frame0} \X {Snapshot(d, a) : d \in GeneralDetails, a \in Addresses},
             MaxGroup)

\* one frame of opcode snapshots with varying pc and stack depth
OpcodeColls ==
    SeqsUpTo({Frame0} \X {Snapshot(d, 1) : d \in OpcodeInputs}, MaxOps)

\* usids 1..n rotated by r, forwards (rev = FALSE) or backwards
UsidList(n, r, rev) ==
    [i \in 1..n |-> IF rev THEN ((n - i + r) % n) + 1 ELSE ((i - 1 + r) % n) + 1]

\* one frame of n hook snapshots whose usids are a rotation of 1..n
HookColls ==
    {[i \in 1..n |-> <<Frame0, Snapshot(HookDetail(UsidList(n, r, rev)[i]), 1)>>] :
        n \in 1..MaxHooks, r \in 0..2, rev \in BOOLEAN}

Collections == GeneralColls \cup AddressColls \cup OpcodeColls \cup HookColls

\* the frame ids that occur in a collection
FramesOf(coll) == {coll[i][1] : i \in 1..Len(coll)}

(***************************************************************************)
(* get_snapshot_stats                                                      *)
(***************************************************************************)
NoStats == [total_snapshots |-> 0 - 1]

StatsAcc0 ==
    [hook_count |-> 0, opcode_count |-> 0,
     frames_with_hooks |-> {}, frames_with_opcodes |-> {}]

\* the Opcode arm forgets its counter
StatsStep_OpcodeNotCounted(acc, frame_id, snapshot) ==
    IF snapshot.detail.kind = "Hook"
    THEN [acc EXCEPT !.hook_count = @ + 1,
                     !.frames_with_hooks = @ \cup {frame_id}]
    ELSE [acc EXCEPT !.frames_with_opcodes = @ \cup {frame_id}]

\* the Hook arm records its frame in the opcode set
StatsStep_HookFrameInOpcodeSet(acc, frame_id, snapshot) ==
    IF snapshot.detail.kind = "Hook"
    THEN [acc EXCEPT !.hook_count = @ + 1,
                     !.frames_with_opcodes = @ \cup {frame_id}]
    ELSE [acc EXCEPT !.opcode_count = @ + 1,
                     !.frames_with_opcodes = @ \cup {frame_id}]

\* one iteration of the loop: match snapshot.detail()
StatsStep(acc, frame_id, snapshot) ==
    IF snapshot.detail.kind = "Hook"
    THEN [acc EXCEPT !.hook_count = @ + 1,
                     !.frames_with_hooks = @ \cup {frame_id}]
    ELSE [acc EXCEPT !.opcode_count = @ + 1,
                     !.frames_with_opcodes = @ \cup {frame_id}]

RECURSIVE StatsLoop(_, _, _)
\* for (frame_id, snapshot) in &self.inner, from position i on
StatsLoop(coll, i, acc) ==
    IF i > Len(coll) THEN acc
    ELSE StatsLoop(coll, i + 1, StatsStep(acc, coll[i][1], coll[i][2]))

\* the frame sets are kept as lists: a frame is counted once per snapshot
get_snapshot_stats_NoDedup(coll, fc) ==
    LET acc == StatsLoop(coll, 1, StatsAcc0)
    IN  [total_snapshots     |-> Len(coll),
         hook_snapshots      |-> acc.hook_count,
         opcode_snapshots    |-> acc.opcode_count,
         total_frames        |-> fc,
         frames_with_hooks   |-> acc.hook_count,
         frames_with_opcodes |-> acc.opcode_count]

get_snapshot_stats(coll, fc) ==
    LET acc == StatsLoop(coll, 1, StatsAcc0)
    IN  [total_snapshots     |-> Len(coll),
         hook_snapshots      |-> acc.hook_count,
         opcode_snapshots    |-> acc.opcode_count,
         total_frames        |-> fc,
         frames_with_hooks   |-> Cardinality(acc.frames_with_hooks),
         frames_with_opcodes |-> Cardinality(acc.frames_with_opcodes)]

(***************************************************************************)
(* Formatting helpers.  Text is a sequence of one-character strings.       *)
(***************************************************************************)
DigitChars == <<"0", "1", "2", "3", "4", "5", "6", "7", "8", "9">>

RECURSIVE to_string(_)
\* Display of an unsigned integer: its decimal digits
to_string(n) ==
    IF n < 10 THEN <<DigitChars[n + 1]>>
    ELSE to_string(n \div 10) \o <<DigitChars[(n % 10) + 1]>>

RECURSIVE join(_, _)
\* [String]::join(sep)
join(texts, sep) ==
    IF Len(texts) = 0 THEN <<>>
    ELSE IF Len(texts) = 1 THEN texts[1]
    ELSE texts[1] \o sep \o join(Tail(texts), sep)

CommaSpace == <<",", " ">>

\* the value "{:.1}" prints for the f64 num/den (den > 0), in tenths: the
\* nearest tenth, an exact tie going to the even digit
FormatTenths(num, den) ==
    LET q == (10 * num) \div den
        r == (10 * num) % den
    IN  IF 2 * r > den THEN q + 1
        ELSE IF 2 * r < den THEN q
        ELSE IF q % 2 = 0 THEN q ELSE q + 1

\* what "{:.1}" prints for the f64 NaN (0.0 / 0.0)
NaN == 0 - 1

\* the division is made whatever the denominator
Percentage_Unguarded(count, total) ==
    IF total > 0 THEN FormatTenths(100 * count, total) ELSE NaN

\* if total > 0 { count as f64 / total as f64 * 100.0 } else { 0.0 }, as printed
Percentage(count, total) ==
    IF total > 0 THEN FormatTenths(100 * count, total) ELSE 0

(***************************************************************************)
(* print_hook_details                                                      *)
(***************************************************************************)
RECURSIVE rev(_)
\* Iterator::rev
rev(s) == IF Len(s) = 0 THEN <<>> ELSE Append(rev(Tail(s)), Head(s))

\* Iterator::take(n)
take(s, n) == IF Len(s) <= n THEN s ELSE SubSeq(s, 1, n)

\* filter_map(..).collect(): the details of the selected snapshots
Details(s) == [i \in 1..Len(s) |-> s[i].detail]

\* hook_snapshots.iter().map(|h| h.usid).collect()
Usids(hooks) == [i \in 1..Len(hooks) |-> hooks[i].usid]

\* .map(|u| u.to_string()).collect()
ToStrings(s) == [i \in 1..Len(s) |-> to_string(s[i])]

\* the trailing rev() is missing: the last three come out backwards
last_few_Reversed(usids) == ToStrings(take(rev(usids), 3))

\* usids.iter().take(3).map(|u| u.to_string()).collect()
first_few(usids) == ToStrings(take(usids, 3))

\* usids.iter().rev().take(3).rev().map(|u| u.to_string()).collect()
last_few(usids) == ToStrings(rev(take(rev(usids), 3)))

\* the lines print_hook_details prints for a frame's snapshots
print_hook_details(snapshots) ==
    LET hook_snapshots == Details(SelectSeq(snapshots, is_hook))
        usids == Usids(hook_snapshots)
    IN  IF Len(hook_snapshots) = 0 THEN <<>>
        ELSE IF Len(usids) = 1 THEN << <<"usid", usids[1]>> >>
        ELSE IF Len(usids) <= 10
             THEN << <<"usids", join(ToStrings(usids), CommaSpace)>> >>
        ELSE << <<"usids_abbrev", join(first_few(usids), CommaSpace),
                  join(last_few(usids), CommaSpace), Len(usids)>> >>

(***************************************************************************)
(* print_opcode_summary                                                    *)
(***************************************************************************)
\* opcode_snapshots.iter().map(|s| s.pc)
Pcs(ops) == [i \in 1..Len(ops) |-> ops[i].pc]

\* opcode_snapshots.iter().map(|s| s.stack.len())
StackLens(ops) == [i \in 1..Len(ops) |-> Len(ops[i].stack)]

RECURSIVE IterMin(_)
\* Iterator::min().unwrap_or(0)
IterMin(s) ==
    IF Len(s) = 0 THEN 0
    ELSE IF Len(s) = 1 THEN s[1]
    ELSE LET m == IterMin(Tail(s)) IN IF s[1] <= m THEN s[1] ELSE m

RECURSIVE IterMax(_)
\* Iterator::max().unwrap_or(0)
IterMax(s) ==
    IF Len(s) = 0 THEN 0
    ELSE IF Len(s) = 1 THEN s[1]
    ELSE LET m == IterMax(Tail(s)) IN IF s[1] > m THEN s[1] ELSE m

RECURSIVE IterSum(_)
\* Iterator::sum::<usize>()
IterSum(s) == IF Len(s) = 0 THEN 0 ELSE s[1] + IterSum(Tail(s))

\* the range runs from the first to the last snapshot's pc
pc_range_FirstLast(opcode_snapshots) ==
    IF Len(opcode_snapshots) = 1 THEN <<"PC", opcode_snapshots[1].pc>>
    ELSE <<"PC", opcode_snapshots[1].pc,
           opcode_snapshots[Len(opcode_snapshots)].pc>>

\* format!("PC {}", pc) or format!("PC {min_pc}..{max_pc}")
pc_range(opcode_snapshots) ==
    IF Len(opcode_snapshots) = 1 THEN <<"PC", opcode_snapshots[1].pc>>
    ELSE <<"PC", IterMin(Pcs(opcode_snapshots)),
           IterMax(Pcs(opcode_snapshots))>>

\* the average stack depth as "{avg_stack:.1}" prints it, in tenths
avg_stack(opcode_snapshots) ==
    IF Len(opcode_snapshots) # 0
    THEN FormatTenths(IterSum(StackLens(opcode_snapshots)),
                      Len(opcode_snapshots))
    ELSE 0

\* the lines print_opcode_summary prints for a frame's snapshots
print_opcode_summary(snapshots) ==
    LET opcode_snapshots == Details(SelectSeq(snapshots, is_opcode))
    IN  IF Len(opcode_snapshots) = 0 THEN <<>>
        ELSE << <<"range", pc_range(opcode_snapshots)>>,
                <<"avg_stack", avg_stack(opcode_snapshots)>> >>

(***************************************************************************)
(* print_frame_summary                                                     *)
(***************************************************************************)
\* the frame is Mixed as soon as it holds a hook
frame_type_HookIsMixed(hook_count, opcode_count) ==
    IF hook_count > 0 THEN "Mixed" ELSE "Opcode"

\* (frame_type, color, icon): the frame type
frame_type(hook_count, opcode_count) ==
    IF hook_count > 0 /\ opcode_count > 0 THEN "Mixed"
    ELSE IF hook_count > 0 THEN "Hook"
    ELSE "Opcode"

\* (frame_type, color, icon): the icon
frame_icon(hook_count, opcode_count) ==
    IF hook_count > 0 /\ opcode_count > 0 THEN "pin"
    ELSE IF hook_count > 0 THEN "target"
    ELSE "gear"

\* the addresses are kept as a list: the count is the number of snapshots
address_lines_NoDedup(snapshots) ==
    IF Len(snapshots) = 1
    THEN << <<"address", snapshots[1].bytecode_address>> >>
    ELSE IF Len(snapshots) # 0 THEN << <<"addresses", Len(snapshots)>> >>
    ELSE <<>>

\* the address information of a frame section
address_lines(snapshots) ==
    LET addresses == {snapshots[i].bytecode_address : i \in 1..Len(snapshots)}
    IN  IF Cardinality(addresses) = 1
        THEN << <<"address", CHOOSE a \in addresses : TRUE>> >>
        ELSE IF addresses # {} THEN << <<"addresses", Cardinality(addresses)>> >>
        ELSE <<>>

\* what print_frame_summary prints and logs for one frame
print_frame_summary(display_idx, frame_id, snapshots) ==
    LET hook_count == Len(SelectSeq(snapshots, is_hook))
        opcode_count == Len(SelectSeq(snapshots, is_opcode))
        total_count == Len(snapshots)
        type == frame_type(hook_count, opcode_count)
        details ==
            IF hook_count > 0 /\ opcode_count > 0
            THEN << <<"hook_count", hook_count>>, <<"opcode_count", opcode_count>> >>
            ELSE IF hook_count > 0 THEN print_hook_details(snapshots)
            ELSE print_opcode_summary(snapshots)
    IN  [log |-> IF hook_count > 0 /\ opcode_count > 0
                 THEN << <<"error", frame_id>> >> ELSE <<>>,
         out |-> << <<"frame_header", display_idx,
                      frame_icon(hook_count, opcode_count), frame_id,
                      frame_id.trace_entry_id, frame_id.re_entry_count>>,
                    <<"type", type, total_count>> >>
                 \o details \o address_lines(snapshots)]

(***************************************************************************)
(* print_summary                                                           *)
(***************************************************************************)
NoGroups == <<>>

\* the frame is pushed to frame_order at every snapshot
GroupStep_NoSeenCheck(acc, frame_id, i) ==
    [frame_order  |-> Append(acc.frame_order, frame_id),
     frame_groups |-> IF frame_id \in DOMAIN acc.frame_groups
                      THEN [acc.frame_groups EXCEPT ![frame_id] = Append(@, i)]
                      ELSE acc.frame_groups @@ (frame_id :> <<i>>)]

\* the snapshot is put in front of its group
GroupStep_PushFront(acc, frame_id, i) ==
    [frame_order  |-> IF frame_id \notin DOMAIN acc.frame_groups
                      THEN Append(acc.frame_order, frame_id)
                      ELSE acc.frame_order,
     frame_groups |-> IF frame_id \in DOMAIN acc.frame_groups
                      THEN [acc.frame_groups EXCEPT ![frame_id] = <<i>> \o @]
                      ELSE acc.frame_groups @@ (frame_id :> <<i>>)]

\* one iteration of the grouping loop; i is the reference to inner[i]
GroupStep(acc, frame_id, i) ==
    [frame_order  |-> IF frame_id \notin DOMAIN acc.frame_groups
                      THEN Append(acc.frame_order, frame_id)
                      ELSE acc.frame_order,
     frame_groups |-> IF frame_id \in DOMAIN acc.frame_groups
                      THEN [acc.frame_groups EXCEPT ![frame_id] = Append(@, i)]
                      ELSE acc.frame_groups @@ (frame_id :> <<i>>)]

RECURSIVE GroupLoop(_, _, _)
\* for (frame_id, snapshot) in &self.inner, from position i on
GroupLoop(coll, i, acc) ==
    IF i > Len(coll) THEN acc
    ELSE GroupLoop(coll, i + 1, GroupStep(acc, coll[i][1], i))

\* the snapshots a group's references point to
Deref(coll, refs) == [k \in 1..Len(refs) |-> coll[refs[k]][2]]

RECURSIVE FramesLoop(_, _, _, _)
\* for (display_idx, frame_id) in frame_order.iter().enumerate(), from k on
FramesLoop(coll, groups, k, acc) ==
    IF k > Len(groups.frame_order) THEN acc
    ELSE LET frame_id == groups.frame_order[k]
             snapshots == Deref(coll, groups.frame_groups[frame_id])
             section == print_frame_summary(k - 1, frame_id, snapshots)
         IN  FramesLoop(coll, groups, k + 1,
                        [out |-> acc.out \o section.out,
                         log |-> acc.log \o section.log])

\* title banner, overall statistics and frame coverage
HeaderLines(st) ==
    << <<"banner_top">>, <<"banner_title">>, <<"banner_bottom">>,
       <<"overall_title">>,
       <<"total_snapshots", st.total_snapshots>>,
       <<"total_frames", st.total_frames>>,
       <<"hook_snapshots", st.hook_snapshots,
         Percentage(st.hook_snapshots, st.total_snapshots)>>,
       <<"opcode_snapshots", st.opcode_snapshots,
         Percentage(st.opcode_snapshots, st.total_snapshots)>>,
       <<"coverage_title">>,
       <<"frames_with_hooks", st.frames_with_hooks,
         Percentage(st.frames_with_hooks, st.total_frames)>>,
       <<"frames_with_opcodes", st.frames_with_opcodes,
         Percentage(st.frames_with_opcodes, st.total_frames)>> >>

LegendLines == << <<"rule">>, <<"legend_title">>, <<"legend_hook">>, <<"legend_opcode">> >>

\* the legend is printed for an empty collection too
print_summary_NoEarlyReturn(coll, fc) ==
    LET st == get_snapshot_stats(coll, fc)
        groups == GroupLoop(coll, 1, [frame_order |-> <<>>, frame_groups |-> NoGroups])
        frames == FramesLoop(coll, groups, 1, [out |-> <<>>, log |-> <<>>])
    IN  [stats |-> st, frame_order |-> groups.frame_order,
         frame_groups |-> groups.frame_groups,
         out |-> HeaderLines(st)
                 \o (IF Len(coll) = 0 THEN << <<"no_snapshots">> >> ELSE <<>>)
                 \o << <<"details_title">>, <<"rule">> >>
                 \o frames.out \o LegendLines,
         log |-> frames.log]

\* everything print_summary prints and logs, and its locals when it returns
print_summary(coll, fc) ==
    LET st == get_snapshot_stats(coll, fc)
        groups == GroupLoop(coll, 1, [frame_order |-> <<>>, frame_groups |-> NoGroups])
        frames == FramesLoop(coll, groups, 1, [out |-> <<>>, log |-> <<>>])
    IN  IF Len(coll) = 0
        THEN [stats |-> st, frame_order |-> <<>>, frame_groups |-> NoGroups,
              out |-> HeaderLines(st) \o << <<"no_snapshots">> >>,
              log |-> <<>>]
        ELSE [stats |-> st, frame_order |-> groups.frame_order,
              frame_groups |-> groups.frame_groups,
              out |-> HeaderLines(st)
                      \o << <<"details_title">>, <<"rule">> >>
                      \o frames.out \o LegendLines,
              log |-> frames.log]

(***************************************************************************)
(* The state machine                                                       *)
(***************************************************************************)
\* Snapshots::frame_count(): the frames the collection knows of, those that
\* carry a snapshot and at most MaxExtra others
FrameCounts(coll) ==
    {Cardinality(FramesOf(coll)) + e : e \in 0..MaxExtra}

Init ==
    /\ inner \in Collections
    /\ frame_count \in FrameCounts(inner)
    /\ returned = "none"
    /\ stats = NoStats
    /\ frame_order = <<>>
    /\ frame_groups = NoGroups
    /\ out = <<>>
    /\ log = <<>>

\* a call of get_snapshot_stats
GetSnapshotStats ==
    /\ returned = "none"
    /\ stats' = get_snapshot_stats(inner, frame_count)
    /\ returned' = "get_snapshot_stats"
    /\ UNCHANGED <<inner, frame_count, frame_order, frame_groups, out, log>>

\* a call of print_summary
PrintSummary ==
    /\ returned = "none"
    /\ LET r == print_summary(inner, frame_count)
       IN  /\ stats' = r.stats
           /\ frame_order' = r.frame_order
           /\ frame_groups' = r.frame_groups
           /\ out' = r.out
           /\ log' = r.log
    /\ returned' = "print_summary"
    /\ UNCHANGED <<inner, frame_count>>

Next == GetSnapshotStats \/ PrintSummary

Spec == Init /\ [][Next]_vars

(***************************************************************************)
(* Reading the collection and the report, for the properties below.       *)
(***************************************************************************)
Printed == returned = "print_summary"

StatsReturned == returned # "none"

Positions(s) == [i \in 1..Len(s) |-> i]

\* the positions of inner that carry frame f, ascending
PositionsOf(f) == SelectSeq(Positions(inner), LAMBDA i : inner[i][1] = f)

\* the snapshots of frame f in collection order
SnapshotsOf(f) == [k \in 1..Len(PositionsOf(f)) |-> inner[PositionsOf(f)[k]][2]]

HooksOf(f) == SelectSeq(SnapshotsOf(f), LAMBDA s : s.detail.kind = "Hook")

OpcodesOf(f) == SelectSeq(SnapshotsOf(f), LAMBDA s : s.detail.kind = "Opcode")

\* the position of the first snapshot of frame f
FirstPosition(f) ==
    CHOOSE i \in 1..Len(inner) :
        inner[i][1] = f /\ \A j \in 1..(i - 1) : inner[j][1] # f

\* the positions of the frame headers in the report
HeaderAt == SelectSeq(Positions(out), LAMBDA i : out[i][1] = "frame_header")

NumSections == Len(HeaderAt)

\* the report ends with the closing rule and the three legend lines
SectionsEnd == Len(out) - Len(LegendLines)

\* the lines of the k-th frame section
Section(k) ==
    SubSeq(out, HeaderAt[k],
           IF k < NumSections THEN HeaderAt[k + 1] - 1 ELSE SectionsEnd)

SectionFrame(k) == out[HeaderAt[k]][4]

SectionType(k) == Section(k)[2][2]

TagsOf(lines) == [i \in 1..Len(lines) |-> lines[i][1]]

DigitValue(c) == CHOOSE d \in 0..9 : DigitChars[d + 1] = c

RECURSIVE ParseNumber(_)
ParseNumber(t) ==
    IF Len(t) = 0 THEN 0
    ELSE 10 * ParseNumber(SubSeq(t, 1, Len(t) - 1)) + DigitValue(t[Len(t)])

RECURSIVE SplitList(_, _)
\* the items of a ", "-separated text; cur is the item being read
SplitList(t, cur) ==
    IF Len(t) = 0 THEN <<cur>>
    ELSE IF t[1] = "," THEN <<cur>> \o SplitList(SubSeq(t, 3, Len(t)), <<>>)
    ELSE SplitList(Tail(t), Append(cur, t[1]))

\* the numbers a printed list shows
ParseList(t) ==
    LET items == SplitList(t, <<>>)
    IN  [i \in 1..Len(items) |-> ParseNumber(items[i])]

(***************************************************************************)
(* Properties                                                              *)
(***************************************************************************)

\* C1: for every collection, the empty one included, the stats returned by
\* get_snapshot_stats have hook_snapshots + opcode_snapshots = total_snapshots
\* and total_snapshots is the length of the collection.
C1_KindsSumToTotal ==
    StatsReturned =>
        /\ stats.total_snapshots = Len(inner)
        /\ stats.hook_snapshots + stats.opcode_snapshots = stats.total_snapshots

C1_Witness ==
    /\ returned = "get_snapshot_stats"
    /\ stats.hook_snapshots = 2
    /\ stats.opcode_snapshots = 1
    /\ stats.total_snapshots = 3

C3_SectionsInFirstOccurrenceOrder ==
    (Printed /\ Len(inner) > 0) =>
        /\ NumSections = Cardinality(FramesOf(inner))
        /\ {SectionFrame(k) : k \in 1..NumSections} = FramesOf(inner)
        /\ \A k \in 1..NumSections : out[HeaderAt[k]][2] = k - 1
        /\ \A j, k \in 1..NumSections :
               j < k => FirstPosition(SectionFrame(j)) < FirstPosition(SectionFrame(k))

C3_Witness ==
    /\ Printed
    /\ Len(inner) = 4
    /\ [i \in 1..4 |-> inner[i][1]] =
           <<ExecutionFrameId(1, 0), ExecutionFrameId(0, 0),
             ExecutionFrameId(1, 0), ExecutionFrameId(1, 1)>>
    /\ [k \in 1..NumSections |-> <<out[HeaderAt[k]][2], SectionFrame(k)>>] =
           << <<0, ExecutionFrameId(1, 0)>>, <<1, ExecutionFrameId(0, 0)>>,
              <<2, ExecutionFrameId(1, 1)>> >>

\* C4: after the grouping pass of print_summary the group of each frame id
\* is exactly the subsequence of the collection's snapshots that carry that
\* frame id, in their original order: nothing dropped, duplicated or put in
\* another frame's group, and no group is empty.
C4_GroupsAreSubsequences ==
    (Printed /\ Len(inner) > 0) =>
        /\ DOMAIN frame_groups = FramesOf(inner)
        /\ \A f \in DOMAIN frame_groups :
               /\ frame_groups[f] = PositionsOf(f)
               /\ Deref(inner, frame_groups[f]) = SnapshotsOf(f)
               /\ Len(frame_groups[f]) > 0

C4_Witness ==
    /\ Printed
    /\ Len(inner) = 4
    /\ frame_groups[inner[1][1]] = <<1, 3, 4>>
    /\ frame_groups[inner[2][1]] = <<2>>
    /\ is_hook(inner[1][2])
    /\ is_opcode(inner[3][2])

\* C5: for an empty collection print_summary emits the title banner, the
\* overall statistics, the frame coverage, then the "no snapshots" notice and
\* nothing after it (no frame-details header, frame section or legend); for a
\* non-empty one the notice is never emitted and the legend comes last,
\* after all frame sections.
C5_EmptyReportStopsAtNotice ==
    Printed =>
        /\ TagsOf(SubSeq(out, 1, 11)) =
               <<"banner_top", "banner_title", "banner_bottom", "overall_title",
                 "total_snapshots", "total_frames", "hook_snapshots",
                 "opcode_snapshots", "coverage_title", "frames_with_hooks",
                 "frames_with_opcodes">>
        /\ Len(inner) = 0 =>
               /\ Len(out) = 12
               /\ out[12] = <<"no_snapshots">>
        /\ Len(inner) > 0 =>
               /\ \A i \in 1..Len(out) : out[i][1] # "no_snapshots"
               /\ out[12] = <<"details_title">>
               /\ NumSections > 0
               /\ SubSeq(out, SectionsEnd + 1, Len(out)) = LegendLines
               /\ \A i \in 1..SectionsEnd :
                      out[i][1] \notin {"legend_title", "legend_hook", "legend_opcode"}
               /\ \A k \in 1..NumSections : HeaderAt[k] <= SectionsEnd

C5_Witness ==
    /\ Printed
    /\ Len(inner) = 0
    /\ out[Len(out)] = <<"no_snapshots">>

C5_WitnessNonEmpty ==
    /\ Printed
    /\ Len(inner) > 0
    /\ NumSections = 2
    /\ out[Len(out)] = <<"legend_opcode">>

\* C6: for every frame group given to print_frame_summary, with h Hook and o
\* Opcode snapshots, the classification is Mixed iff h > 0 and o > 0, Hook iff
\* h > 0 and o = 0, Opcode iff h = 0 and o > 0, and h = 0 and o = 0 never
\* occurs.  A Mixed frame logs a warning naming the frame id, renders the hook
\* count and the opcode count as two lines with no per-kind detail, and
\* rendering goes on to the address line and to the following frames.
C6_FrameClassification ==
    (Printed /\ Len(inner) > 0) =>
        /\ NumSections = Len(frame_order)
        /\ \A k \in 1..NumSections :
               LET f == SectionFrame(k)
                   h == Len(HooksOf(f))
                   o == Len(OpcodesOf(f))
               IN  /\ f = frame_order[k]
                   /\ h + o > 0
                   /\ Section(k)[2] = <<"type", SectionType(k), h + o>>
                   /\ SectionType(k) = "Mixed" <=> (h > 0 /\ o > 0)
                   /\ SectionType(k) = "Hook" <=> (h > 0 /\ o = 0)
                   /\ SectionType(k) = "Opcode" <=> (h = 0 /\ o > 0)
                   /\ (h > 0 /\ o > 0) =>
                          /\ Len(Section(k)) = 5
                          /\ Section(k)[3] = <<"hook_count", h>>
                          /\ Section(k)[4] = <<"opcode_count", o>>
                          /\ Section(k)[5][1] \in {"address", "addresses"}
        /\ log = SelectSeq([k \in 1..Len(frame_order) |-> <<"error", frame_order[k]>>],
                           LAMBDA e : Len(HooksOf(e[2])) > 0 /\ Len(OpcodesOf(e[2])) > 0)

C6_Witness ==
    /\ Printed
    /\ NumSections = 3
    /\ SectionType(1) = "Mixed"
    /\ SectionType(2) = "Hook"
    /\ SectionType(3) = "Opcode"
    /\ log = << <<"error", SectionFrame(1)>> >>

\* C7: for a hook-only frame with n Hook snapshots print_hook_details prints
\* the usids in the frame's snapshot order: the single usid when n = 1, all n
\* usids in order when 2 <= n <= 10, and for n > 10 the first three, the last
\* three (each triple in its original order) and the total n.
C7_HookUsids ==
    Printed =>
        \A k \in 1..NumSections :
            LET usids == [i \in 1..Len(HooksOf(SectionFrame(k))) |->
                             HooksOf(SectionFrame(k))[i].detail.usid]
                n == Len(usids)
                line == Section(k)[3]
            IN  SectionType(k) = "Hook" =>
                    /\ Len(Section(k)) = 4
                    /\ n = 1 => line = <<"usid", usids[1]>>
                    /\ (2 <= n /\ n <= 10) =>
                           /\ line[1] = "usids"
                           /\ ParseList(line[2]) = usids
                    /\ n > 10 =>
                           /\ line[1] = "usids_abbrev"
                           /\ ParseList(line[2]) = <<usids[1], usids[2], usids[3]>>
                           /\ ParseList(line[3]) =
                                  <<usids[n - 2], usids[n - 1], usids[n]>>
                           /\ line[4] = n

C7_Witness ==
    /\ Printed
    /\ Len(inner) = 12
    /\ \A i \in 1..12 : inner[i][2].detail = HookDetail(i)
    /\ Section(1)[3] =
           <<"usids_abbrev", <<"1", ",", " ", "2", ",", " ", "3">>,
             <<"1", "0", ",", " ", "1", "1", ",", " ", "1", "2">>, 12>>

\* C8: for an opcode-only frame print_opcode_summary prints as PC range the
\* single pc when the frame has one opcode snapshot and otherwise
\* min(pc)..max(pc) over all its opcode snapshots (also when all pcs are
\* equal), and as average stack depth the sum of the stack lengths divided by
\* the number of opcode snapshots (shown to one decimal place).
C8_OpcodeRangeAndAverage ==
    Printed =>
        \A k \in 1..NumSections :
            LET ops == OpcodesOf(SectionFrame(k))
                n == Len(ops)
                pcs == {ops[i].detail.pc : i \in 1..n}
                lo == CHOOSE m \in pcs : \A p \in pcs : m <= p
                hi == CHOOSE m \in pcs : \A p \in pcs : m >= p
                depths == [i \in 1..n |-> Len(ops[i].detail.stack)]
                avg == Section(k)[4][2]
                diff == 10 * IterSum(depths) - avg * n
            IN  SectionType(k) = "Opcode" =>
                    /\ Len(Section(k)) = 5
                    /\ Section(k)[3] =
                           <<"range", IF n = 1 THEN <<"PC", ops[1].detail.pc>>
                                      ELSE <<"PC", lo, hi>> >>
                    /\ Section(k)[4][1] = "avg_stack"
                    /\ 2 * diff <= n
                    /\ 2 * diff >= 0 - n

C8_Witness ==
    /\ Printed
    /\ Len(inner) = 4
    /\ [i \in 1..4 |-> inner[i][2].detail] =
           <<OpcodeDetail(5, StackOf(1)), OpcodeDetail(20, StackOf(3)),
             OpcodeDetail(5, StackOf(1)), OpcodeDetail(9, StackOf(5))>>
    /\ Section(1)[3] = <<"range", <<"PC", 5, 20>> >>
    /\ Section(1)[4] = <<"avg_stack", 25>>

\* C9: every frame section (Hook, Opcode or Mixed) prints exactly one address
\* line, computed from the set of distinct bytecode_address values of the
\* frame's snapshots: the address itself when the set has one element, and
\* only the count k ("k unique") when it has k > 1 elements.
C9_AddressLine ==
    Printed =>
        \A k \in 1..NumSections :
            LET snaps == SnapshotsOf(SectionFrame(k))
                addrs == {snaps[i].bytecode_address : i \in 1..Len(snaps)}
                lines == Section(k)
                last == lines[Len(lines)]
            IN  /\ Cardinality({i \in 1..Len(lines) :
                                   lines[i][1] \in {"address", "addresses"}}) = 1
                /\ Cardinality(addrs) = 1 => last = <<"address", CHOOSE a \in addrs : TRUE>>
                /\ Cardinality(addrs) > 1 => last = <<"addresses", Cardinality(addrs)>>

C9_Witness ==
    /\ Printed
    /\ Len(inner) = 3
    /\ SectionType(1) = "Mixed"
    /\ Section(1)[5] = <<"addresses", 3>>

C9_WitnessSingle ==
    /\ Printed
    /\ Len(inner) = 3
    /\ NumSections = 1
    /\ Section(1)[Len(Section(1))] = <<"address", 2>>

C11_StatsAgreeWithSections ==
    (Printed /\ Len(inner) > 0) =>
        LET hookish == {k \in 1..NumSections : SectionType(k) \in {"Hook", "Mixed"}}
            opcodish == {k \in 1..NumSections : SectionType(k) \in {"Opcode", "Mixed"}}
            mixed == {k \in 1..NumSections : SectionType(k) = "Mixed"}
            withHooks == {f \in FramesOf(inner) : Len(HooksOf(f)) > 0}
            withOpcodes == {f \in FramesOf(inner) : Len(OpcodesOf(f)) > 0}
            totals == [k \in 1..NumSections |-> Section(k)[2][3]]
        IN  /\ Cardinality(hookish) = stats.frames_with_hooks
            /\ Cardinality(opcodish) = stats.frames_with_opcodes
            /\ NumSections = Cardinality(withHooks \cup withOpcodes)
            /\ NumSections =
                   stats.frames_with_hooks + stats.frames_with_opcodes
                       - Cardinality(mixed)
            /\ IterSum(totals) = stats.total_snapshots

C11_Witness ==
    /\ Printed
    /\ NumSections = 3
    /\ SectionType(1) = "Hook"
    /\ SectionType(2) = "Mixed"
    /\ SectionType(3) = "Opcode"
    /\ stats.frames_with_hooks = 2
    /\ stats.frames_with_opcodes = 2
    /\ stats.total_snapshots = 4
    /\ Section(2)[2] = <<"type", "Mixed", 2>>

====
